---- MODULE Spec2Model ----
(***************************************************************************)
(* A model of py4DSTEM/process/datastructure/pointlist.py: the PointList   *)
(* class (a structured numpy array of points plus a separately kept        *)
(* length) and the PointListArray class (a list of lists of PointLists).   *)
(*                                                                         *)
(* Python objects are records; a method is an operator from the object and *)
(* its arguments to [ok, err, self, ret]: whether the call returned or     *)
(* raised, the object as the call left it (also when it raised), and the   *)
(* returned object.  Python lists and numpy arrays are sequences; a numpy  *)
(* index i (0-based) is position i+1.                                      *)
(***************************************************************************)
EXTENDS Integers, Sequences, FiniteSets, TLC

\* Bounds of the explored inputs.
MaxVal == 1      \* coordinate values are 0..MaxVal
MaxLen == 2      \* a PointList is grown to at most MaxLen points
MaxBatch == 2    \* add_pointarray / data= take at most MaxBatch points
MaxTups == 2     \* get_subpointlist takes at most MaxTups tuples
MaxDim == 2      \* a PointListArray has at most MaxDim rows and columns
MaxCell == 1     \* a cell of a PointListArray is grown to at most MaxCell points

Vals == 0..MaxVal

\* A Python number as numpy stores it in a field that is `depth` structured
\* dtypes deep: depth 0 is the number itself, depth d > 0 the number broadcast
\* to every leaf of the nested record.
Scalar(n) == [v |-> n, depth |-> 0]

---------------------------------------------------------------------------
(* numpy *)

\* The two behaviours numpy.delete has had for an index past the end of the
\* array: ignored with a DeprecationWarning (numpy 1.9 to 1.18), IndexError
\* (numpy 1.19 on).  The source pins no numpy version.
NumpyBuilds == {"delete_ignores_out_of_bounds", "delete_raises_out_of_bounds"}

\* np.dtype(...) of __init__: with names only, every field takes the dtype
\* argument; with (name, dtype) pairs, each field takes its own.
np_dtype(coordinates, dtype) ==
  [i \in 1..Len(coordinates.names) |->
     IF coordinates.kind = "str"
     THEN [name |-> coordinates.names[i], base |-> dtype.base, depth |-> dtype.depth]
     ELSE [name |-> coordinates.names[i], base |-> coordinates.bases[i], depth |-> 0]]

\* A PointList's own structured dtype, used as the dtype of a field (copy
\* passes dtype=self.dtype): one level deeper.  Only read by np_dtype for
\* names-only coordinates, whose fields all have one type.
struct_as_field(dtype) ==
  [base |-> dtype[1].base, depth |-> dtype[1].depth + 1]

\* np.array(point, dtype=dtype) for a tuple of len(dtype) elements: element i
\* is cast to field i; an element assigned to a structured field is broadcast
\* to all its leaves.  The numbers are small integers, which the int and float
\* casts keep.
np_array(point, dtype) ==
  [i \in 1..Len(dtype) |-> [v |-> point[i].v, depth |-> dtype[i].depth]]

dtype_names(dtype) == {dtype[i].name : i \in 1..Len(dtype)}

field_index(dtype, name) == CHOOSE i \in 1..Len(dtype) : dtype[i].name = name

\* np.sort(..., order=coordinate) compares by the named field and breaks ties
\* by the other fields in dtype order.
sort_key(dtype, coordinate) ==
  LET k == field_index(dtype, coordinate)
  IN  <<k>> \o [i \in 1..(Len(dtype) - 1) |-> IF i < k THEN i ELSE i + 1]

row_less(r1, r2, key) ==
  \E j \in 1..Len(key) :
     /\ \A l \in 1..(j - 1) : r1[key[l]].v = r2[key[l]].v
     /\ r1[key[j]].v < r2[key[j]].v

RECURSIVE sorted_insert(_, _, _)
sorted_insert(arr, r, key) ==
  IF arr = <<>> THEN <<r>>
  ELSE IF row_less(r, Head(arr), key) THEN <<r>> \o arr
  ELSE <<Head(arr)>> \o sorted_insert(Tail(arr), r, key)

RECURSIVE np_sort(_, _)
np_sort(arr, key) ==
  IF arr = <<>> THEN <<>>
  ELSE sorted_insert(np_sort(Tail(arr), key), Head(arr), key)

\* arr[::-1]
reversed(arr) == [i \in 1..Len(arr) |-> arr[Len(arr) + 1 - i]]

\* deletemask.nonzero()[0], as positions
nonzero(mask) == {i \in 1..Len(mask) : mask[i]}

RECURSIVE without(_, _, _)
without(arr, idx, i) ==
  IF i > Len(arr) THEN <<>>
  ELSE (IF i \in idx THEN <<>> ELSE <<arr[i]>>) \o without(arr, idx, i + 1)

\* np.delete(arr, idx)
np_delete(arr, idx, build) ==
  IF (\E i \in idx : i > Len(arr)) /\ build = "delete_raises_out_of_bounds"
  THEN [ok |-> FALSE, arr |-> arr]
  ELSE [ok |-> TRUE, arr |-> without(arr, idx, 1)]

---------------------------------------------------------------------------
(* PointList *)

Raised(err, self) == [ok |-> FALSE, err |-> err, self |-> self, ret |-> self]
Returned(self, ret) == [ok |-> TRUE, err |-> "", self |-> self, ret |-> ret]

add_point(self, point) ==
  IF Len(point) # Len(self.dtype) THEN Raised("AssertionError", self)
  ELSE LET grown == [self EXCEPT !.data = Append(@, np_array(point, self.dtype)),
                                 !.length = @ + 1]
       IN  Returned(grown, grown)

\* the loop of add_pointarray from point i on
RECURSIVE add_points(_, _, _)
add_points(self, pointarray, i) ==
  IF i > Len(pointarray) THEN Returned(self, self)
  ELSE LET r == add_point(self, pointarray[i])
       IN  IF r.ok THEN add_points(r.self, pointarray, i + 1) ELSE r

add_pointarray(self, pointarray) ==
  IF Len(pointarray) = 0 THEN Raised("IndexError", self)
  ELSE IF Len(pointarray[1]) # Len(self.dtype) THEN Raised("AssertionError", self)
  ELSE add_points(self, pointarray, 1)

NoData == [given |-> FALSE, rows |-> <<>>]
Data(rows) == [given |-> TRUE, rows |-> rows]

\* a constructor that raised: there is no object
NotConstructed(err) == [ok |-> FALSE, err |-> err]

\* PointList(coordinates, parentDataCube, data, dtype); ret is the new object
PointList(coordinates, parentDataCube, data, dtype) ==
  LET blank == [coordinates |-> coordinates, parentDataCube |-> parentDataCube,
                dtype |-> np_dtype(coordinates, dtype), data |-> <<>>, length |-> 0]
  IN  IF Len(coordinates.names) = 0 THEN NotConstructed("IndexError")
      ELSE IF coordinates.kind \notin {"str", "tuple"} THEN NotConstructed("TypeError")
      ELSE IF ~data.given THEN Returned(blank, blank)
      ELSE add_pointarray(blank, data.rows)

\* pointlist in the result: the argument as the call left it
\* a variant of add_pointlist that puts the other PointList's points in front
add_pointlist_in_front(self, pointlist) ==
  IF self.dtype # pointlist.dtype
  THEN [ok |-> FALSE, err |-> "AssertionError", self |-> self, ret |-> self,
        pointlist |-> pointlist]
  ELSE LET grown == [self EXCEPT !.data = pointlist.data \o @,
                                 !.length = @ + pointlist.length]
       IN  [ok |-> TRUE, err |-> "", self |-> grown, ret |-> grown,
            pointlist |-> pointlist]

add_pointlist(self, pointlist) ==
  IF self.dtype # pointlist.dtype
  THEN [ok |-> FALSE, err |-> "AssertionError", self |-> self, ret |-> self,
        pointlist |-> pointlist]
  ELSE LET grown == [self EXCEPT !.data = @ \o pointlist.data,
                                 !.length = @ + pointlist.length]
       IN  [ok |-> TRUE, err |-> "", self |-> grown, ret |-> grown,
            pointlist |-> pointlist]

RECURSIVE insert_descending(_, _, _)
insert_descending(arr, r, f) ==
  IF arr = <<>> THEN <<r>>
  ELSE IF r[f].v > Head(arr)[f].v THEN <<r>> \o arr
  ELSE <<Head(arr)>> \o insert_descending(Tail(arr), r, f)

RECURSIVE stable_descending(_, _, _)
stable_descending(arr, f, acc) ==
  IF arr = <<>> THEN acc
  ELSE stable_descending(Tail(arr), f, insert_descending(acc, Head(arr), f))

\* a variant of sort whose descending order is a stable sort of the ascending
\* result by the coordinate alone, high to low, instead of its reverse
sort_stable_descending(self, coordinate, order) ==
  IF coordinate \notin dtype_names(self.dtype) THEN Raised("AssertionError", self)
  ELSE IF order \notin {"descending", "ascending"} THEN Raised("AssertionError", self)
  ELSE LET asc == np_sort(self.data, sort_key(self.dtype, coordinate))
           new == [self EXCEPT !.data =
                     IF order = "ascending" THEN asc
                     ELSE stable_descending(asc, field_index(self.dtype, coordinate), <<>>)]
       IN  Returned(new, new)

sort(self, coordinate, order) ==
  IF coordinate \notin dtype_names(self.dtype) THEN Raised("AssertionError", self)
  ELSE IF order \notin {"descending", "ascending"} THEN Raised("AssertionError", self)
  ELSE LET asc == np_sort(self.data, sort_key(self.dtype, coordinate))
           new == [self EXCEPT !.data = IF order = "ascending" THEN asc ELSE reversed(asc)]
       IN  Returned(new, new)

remove_points(self, deletemask, build) ==
  LET d == np_delete(self.data, nonzero(deletemask), build)
  IN  IF ~d.ok THEN Raised("IndexError", self)
      ELSE LET new == [self EXCEPT !.data = d.arr,
                                   !.length = @ - Cardinality(nonzero(deletemask))]
           IN  Returned(new, new)

copy(self) ==
  LET r == PointList(self.coordinates, self.parentDataCube, Data(self.data),
                     struct_as_field(self.dtype))
  IN  IF r.ok THEN Returned(self, r.ret) ELSE Raised(r.err, self)

\* the deletemask of get_subpointlist after the tuples from i on
RECURSIVE subpointlist_mask(_, _, _, _)
subpointlist_mask(self, coords_vals, i, deletemask) ==
  IF i > Len(coords_vals) THEN [ok |-> TRUE, err |-> "", mask |-> deletemask]
  ELSE LET tup == coords_vals[i] IN
    IF Len(tup) \notin {2, 3} THEN [ok |-> FALSE, err |-> "AssertionError", mask |-> deletemask]
    ELSE IF tup[1] \notin dtype_names(self.dtype)
      THEN [ok |-> FALSE, err |-> "AssertionError", mask |-> deletemask]
    ELSE LET f == field_index(self.dtype, tup[1])
         IN  IF Len(tup) = 2
             THEN subpointlist_mask(self, coords_vals, i + 1,
                    [k \in 1..Len(deletemask) |->
                       deletemask[k] \/ self.data[k][f].v # tup[2]])
             ELSE subpointlist_mask(self, coords_vals, i + 1,
                    [k \in 1..Len(deletemask) |->
                       deletemask[k] \/ self.data[k][f].v < tup[2]
                                     \/ self.data[k][f].v >= tup[3]])

\* a variant of get_subpointlist that removes the points from self instead
\* of from a copy
get_subpointlist_in_place(self, coords_vals, build) ==
  LET m == subpointlist_mask(self, coords_vals, 1, [k \in 1..Len(self.data) |-> FALSE])
  IN  IF ~m.ok THEN Raised(m.err, self)
      ELSE LET r == remove_points(self, m.mask, build)
           IN  IF r.ok THEN Returned(r.self, r.ret) ELSE Raised(r.err, self)

get_subpointlist(self, coords_vals, build) ==
  LET m == subpointlist_mask(self, coords_vals, 1, [k \in 1..Len(self.data) |-> FALSE])
  IN  IF ~m.ok THEN Raised(m.err, self)
      ELSE LET c == copy(self)
           IN  IF ~c.ok THEN Raised(c.err, c.self)
               ELSE LET r == remove_points(c.ret, m.mask, build)
                    IN  IF r.ok THEN Returned(c.self, r.ret) ELSE Raised(r.err, c.self)

---------------------------------------------------------------------------
(* PointListArray *)

\* range(n) as positions
range(n) == 1..(IF n > 0 THEN n ELSE 0)

\* list[i] of a Python list of n elements: the position read, 0 for IndexError
\* (a negative index counts from the end)
list_index(n, i) ==
  IF 0 <= i /\ i < n THEN i + 1
  ELSE IF 0 - n <= i /\ i < 0 THEN n + i + 1
  ELSE 0

NoShape == [given |-> FALSE, is_tuple |-> FALSE, value |-> <<>>]
Shape(value) == [given |-> TRUE, is_tuple |-> TRUE, value |-> value]

\* PointListArray(coordinates, parentDataCube, shape, dtype); a PointList
\* constructor that raises is reached only when there is a cell to build
PointListArray(coordinates, parentDataCube, shape, dtype) ==
  IF shape.given /\ ~shape.is_tuple THEN NotConstructed("AssertionError")
  ELSE IF shape.given /\ Len(shape.value) # 2 THEN NotConstructed("AssertionError")
  ELSE LET sh == IF shape.given THEN shape.value
                 ELSE <<parentDataCube.R_Nx, parentDataCube.R_Ny>>
           cell == PointList(coordinates, parentDataCube, NoData, dtype)
       IN  IF range(sh[1]) # {} /\ range(sh[2]) # {} /\ ~cell.ok
           THEN NotConstructed(cell.err)
           ELSE LET new == [coordinates |-> coordinates,
                            parentDataCube |-> parentDataCube,
                            default_dtype |-> dtype,
                            shape |-> sh,
                            pointlists |-> [i \in range(sh[1]) |->
                                              [j \in range(sh[2]) |-> cell.ret]]]
                IN  Returned(new, new)

\* self.pointlists[i][j]; at is the cell read, as positions
get_pointlist(self, i, j) ==
  LET ii == list_index(Len(self.pointlists), i)
  IN  IF ii = 0 THEN [ok |-> FALSE, err |-> "IndexError", at |-> <<0, 0>>]
      ELSE LET jj == list_index(Len(self.pointlists[ii]), j)
           IN  IF jj = 0 THEN [ok |-> FALSE, err |-> "IndexError", at |-> <<0, 0>>]
               ELSE [ok |-> TRUE, err |-> "", at |-> <<ii, jj>>]

\* the double loop of PointListArray.copy from cell k on, in row-major order
RECURSIVE copy_cells(_, _, _)
copy_cells(self, new, k) ==
  LET rows == Cardinality(range(new.shape[1]))
      cols == Cardinality(range(new.shape[2]))
  IN  IF k > rows * cols THEN Returned(self, new)
      ELSE LET i == ((k - 1) \div cols) + 1
               j == ((k - 1) % cols) + 1
               c == copy(self.pointlists[i][j])
           IN  IF ~c.ok THEN Raised(c.err, self)
               ELSE LET m == add_pointlist(new.pointlists[i][j], c.ret)
                    IN  IF ~m.ok THEN Raised(m.err, self)
                        ELSE copy_cells(self,
                               [new EXCEPT !.pointlists[i][j] = m.self], k + 1)

PointListArray_copy(self) ==
  LET r == PointListArray(self.coordinates, self.parentDataCube,
                          Shape(self.shape), self.default_dtype)
  IN  IF ~r.ok THEN Raised(r.err, self) ELSE copy_cells(self, r.ret, 1)

---------------------------------------------------------------------------
(* The PointList program: one PointList, pl, and the calls a client makes  *)
(* on it.  No method writes into an array in place (each assigns a fresh   *)
(* array to self.data), so objects are values here.  last describes the    *)
(* latest call: what was called, whether it returned or raised, and the    *)
(* object it returned; for add_pointlist also whether the argument was pl  *)
(* itself and how many points it held, for sort its arguments and whether  *)
(* the call before it was an ascending sort by the same coordinate.        *)

VARIABLES pl, pla, last, numpy

vars == <<pl, pla, last, numpy>>

\* parentDataCube: only its real-space shape is read (by PointListArray)
DataCube == [R_Nx |-> 2, R_Ny |-> 1]

\* dtype=float, the default of both constructors
FloatType == [base |-> "float", depth |-> 0]

\* coordinates: names only; (name, dtype) pairs that differ from it in a type;
\* pairs that differ from it in a name; an empty list; a list of numbers
CoordNames == [kind |-> "str", names |-> <<"x", "y">>, bases |-> <<>>]
CoordPairs == [kind |-> "tuple", names |-> <<"x", "y">>, bases |-> <<"int", "float">>]
CoordPairsXZ == [kind |-> "tuple", names |-> <<"x", "z">>, bases |-> <<"float", "float">>]
CoordEmpty == [kind |-> "str", names |-> <<>>, bases |-> <<>>]
CoordNumbers == [kind |-> "int", names |-> <<"x", "y">>, bases |-> <<>>]
ValidCoordinates == {CoordNames, CoordPairs, CoordPairsXZ}
Coordinates == ValidCoordinates \cup {CoordEmpty, CoordNumbers}

\* points of two coordinates (every dtype here has two fields), and one of one
GoodPoints == [1..2 -> {Scalar(x) : x \in Vals}]
Points == GoodPoints \cup {<<Scalar(0)>>}
PointArrays == UNION {[1..n -> Points] : n \in 0..MaxBatch}
DataArgs == {NoData} \cup {Data(pa) : pa \in PointArrays}
Masks == UNION {[1..n -> BOOLEAN] : n \in 0..(MaxLen + 1)}
FieldArgs == {"x", "y", "z"}
Orders == {"ascending", "descending", "sideways"}
Tups == {<<"x">>}
        \cup {<<f, x>> : f \in {"x", "y"}, x \in Vals}
        \cup {<<f, lo, lo + 1>> : f \in {"x", "y"}, lo \in Vals}
CoordsVals == UNION {[1..n -> Tups] : n \in 0..MaxTups}

\* the PointLists handed to add_pointlist: built by the constructor, or copies
Built == {PointList(c, DataCube, Data(pa), FloatType).ret :
            c \in ValidCoordinates, pa \in UNION {[1..n -> GoodPoints] : n \in 1..MaxBatch}}
         \cup {PointList(c, DataCube, NoData, FloatType).ret : c \in ValidCoordinates}
OtherPointLists == Built \cup {copy(o).ret : o \in {b \in Built : copy(b).ok}}

None == [none |-> TRUE]
Call(op, r, ret) == [op |-> op, ok |-> r.ok, err |-> r.err, ret |-> ret]

Init ==
  /\ numpy \in NumpyBuilds
  /\ pl \in {PointList(c, DataCube, NoData, FloatType).ret : c \in ValidCoordinates}
  /\ pla = PointListArray(CoordNames, DataCube, NoShape, FloatType).ret
  /\ last = [op |-> "PointList", ok |-> TRUE, err |-> "", ret |-> pl]

\* pl = PointList(coordinates, DataCube, data); a raise leaves pl bound as it was
Construct(coordinates, data) ==
  LET r == PointList(coordinates, DataCube, data, FloatType)
  IN  /\ pl' = IF r.ok THEN r.ret ELSE pl
      /\ last' = Call("PointList", r, IF r.ok THEN r.ret ELSE None)
      /\ UNCHANGED <<pla, numpy>>

\* pl.add_point(point)
AddPoint(point) ==
  LET r == add_point(pl, point)
  IN  /\ Len(pl.data) < MaxLen
      /\ pl' = r.self
      /\ last' = Call("add_point", r, None)
      /\ UNCHANGED <<pla, numpy>>

\* pl.add_pointarray(pointarray)
AddPointArray(pointarray) ==
  LET r == add_pointarray(pl, pointarray)
  IN  /\ Len(pl.data) + Len(pointarray) <= MaxLen
      /\ pl' = r.self
      /\ last' = Call("add_pointarray", r, None)
      /\ UNCHANGED <<pla, numpy>>

\* pl.add_pointlist(pointlist), pointlist another object
AddPointList(pointlist) ==
  LET r == add_pointlist(pl, pointlist)
  IN  /\ Len(pl.data) + Len(pointlist.data) <= MaxLen
      /\ pl' = r.self
      /\ last' = [op |-> "add_pointlist", ok |-> r.ok, err |-> r.err, ret |-> None,
                  alias |-> FALSE, given |-> pointlist.length]
      /\ UNCHANGED <<pla, numpy>>

\* pl.add_pointlist(pl); a length that is out of step is not doubled forever
AddPointListSelf ==
  LET r == add_pointlist(pl, pl)
  IN  /\ 2 * Len(pl.data) <= MaxLen
      /\ 2 * pl.length >= 0 - MaxLen
      /\ pl' = r.self
      /\ last' = [op |-> "add_pointlist", ok |-> r.ok, err |-> r.err, ret |-> None,
                  alias |-> TRUE, given |-> pl.length]
      /\ UNCHANGED <<pla, numpy>>

\* pl.sort(coordinate, order)
Sort(coordinate, order) ==
  LET r == sort(pl, coordinate, order)
  IN  /\ pl' = r.self
      /\ last' = [op |-> "sort", ok |-> r.ok, err |-> r.err, ret |-> None,
                  coordinate |-> coordinate, order |-> order,
                  after_ascending |-> /\ last.op = "sort" /\ last.ok
                                      /\ last.order = "ascending"
                                      /\ last.coordinate = coordinate]
      /\ UNCHANGED <<pla, numpy>>

\* pl.remove_points(deletemask), for a mask at most one longer than the data,
\* while length is in step with the data (so that length stays bounded)
RemovePoints(deletemask) ==
  LET r == remove_points(pl, deletemask, numpy)
  IN  /\ pl.length = Len(pl.data)
      /\ Len(deletemask) <= Len(pl.data) + 1
      /\ pl' = r.self
      /\ last' = Call("remove_points", r, None)
      /\ UNCHANGED <<pla, numpy>>

\* pl.copy()
Copy ==
  LET r == copy(pl)
  IN  /\ pl' = r.self
      /\ last' = Call("copy", r, IF r.ok THEN r.ret ELSE None)
      /\ UNCHANGED <<pla, numpy>>

\* pl.get_subpointlist(coords_vals)
GetSubpointlist(coords_vals) ==
  LET r == get_subpointlist(pl, coords_vals, numpy)
  IN  /\ pl' = r.self
      /\ last' = Call("get_subpointlist", r, IF r.ok THEN r.ret ELSE None)
      /\ UNCHANGED <<pla, numpy>>

Next ==
  \/ \E c \in ValidCoordinates, d \in DataArgs : Construct(c, d)
  \/ \E c \in Coordinates \ ValidCoordinates : Construct(c, NoData)
  \/ \E p \in Points : AddPoint(p)
  \/ \E pa \in PointArrays : AddPointArray(pa)
  \/ \E o \in OtherPointLists : AddPointList(o)
  \/ AddPointListSelf
  \/ \E f \in FieldArgs, o \in Orders : Sort(f, o)
  \/ \E m \in Masks : RemovePoints(m)
  \/ Copy
  \/ \E cv \in CoordsVals : GetSubpointlist(cv)

Spec == Init /\ [][Next]_vars

---------------------------------------------------------------------------
(* Claims about PointList, checked under Spec *)

\* C1: in every reachable state the count (length) of the PointList equals the
\* number of points it stores.
C1_LengthIsNumberOfPoints == pl.length = Len(pl.data)

\* C2: a call that raises leaves the PointList exactly as it was: no point of
\* a rejected batch stays behind.
C2_RaiseLeavesUnchanged == [][~last'.ok => pl' = pl]_vars

\* C3: copy() always returns, and returns a PointList with the coordinates,
\* dtype, owner, points and length of the one it was called on, which it
\* leaves as it was.
C3_CopyIsEqual ==
  [][last'.op = "copy" =>
       /\ last'.ok
       /\ last'.ret.coordinates = pl.coordinates
       /\ last'.ret.dtype = pl.dtype
       /\ last'.ret.parentDataCube = pl.parentDataCube
       /\ last'.ret.data = pl.data
       /\ last'.ret.length = pl.length
       /\ pl' = pl]_vars

\* what the spec says a tuple asks of a point
Satisfies(row, dtype, tup) ==
  LET x == row[field_index(dtype, tup[1])].v
  IN  IF Len(tup) = 2 THEN x = tup[2] ELSE tup[2] <= x /\ x < tup[3]

WellFormed(coords_vals, dtype) ==
  \A k \in 1..Len(coords_vals) :
     Len(coords_vals[k]) \in {2, 3} /\ coords_vals[k][1] \in dtype_names(dtype)

RECURSIVE Kept(_, _, _)
Kept(data, dtype, coords_vals) ==
  IF data = <<>> THEN <<>>
  ELSE (IF \A k \in 1..Len(coords_vals) : Satisfies(Head(data), dtype, coords_vals[k])
        THEN <<Head(data)>> ELSE <<>>) \o Kept(Tail(data), dtype, coords_vals)

\* C4: get_subpointlist with tuples that all name fields returns exactly the
\* points that satisfy every tuple, in order, and their number as length:
\* (f, v) keeps f == v, (f, lo, hi) keeps lo <= f < hi.
C4_SubpointlistIsTheKeptPoints ==
  [][last'.op = "get_subpointlist" =>
       \A cv \in CoordsVals :
          GetSubpointlist(cv) /\ WellFormed(cv, pl.dtype) =>
             /\ last'.ok
             /\ last'.ret.data = Kept(pl.data, pl.dtype, cv)
             /\ last'.ret.length = Len(Kept(pl.data, pl.dtype, cv))]_vars

\* C5: get_subpointlist, whether it returns or raises, leaves the PointList it
\* is called on as it was: same points, same length.
C5_SubpointlistLeavesSource == [][last'.op = "get_subpointlist" => pl' = pl]_vars

\* a get_subpointlist that returned some but not all of the points
C5_Witness ==
  /\ last.op = "get_subpointlist" /\ last.ok
  /\ last.ret.data # <<>>
  /\ Len(last.ret.data) < Len(pl.data)

\* C6: a.add_pointlist(b), b another PointList: with equal dtypes a holds its
\* points followed by b's in b's order and a.length grows by b.length, with
\* different dtypes the call raises and a is as it was; b is as it was.
C6_AddPointlistAppends ==
  [][last'.op = "add_pointlist" /\ ~last'.alias =>
       \A b \in OtherPointLists :
          AddPointList(b) =>
             /\ add_pointlist(pl, b).pointlist = b
             /\ IF b.dtype = pl.dtype
                THEN /\ last'.ok
                     /\ pl'.data = pl.data \o b.data
                     /\ pl'.length = pl.length + b.length
                ELSE ~last'.ok /\ pl' = pl]_vars

\* one point appended to one point
C6_Witness ==
  /\ last.op = "add_pointlist" /\ last.ok /\ ~last.alias
  /\ last.given = 1
  /\ Len(pl.data) = 2

Occurrences(row, data) == Cardinality({k \in 1..Len(data) : data[k] = row})

SamePoints(d1, d2) ==
  /\ Len(d1) = Len(d2)
  /\ \A k \in 1..Len(d1) : Occurrences(d1[k], d1) = Occurrences(d1[k], d2)

\* C7: a descending sort right after an ascending sort by the same coordinate
\* leaves the exact reverse of what the ascending sort left, ties included;
\* a sort keeps the points and the length; an order that is neither
\* ascending nor descending raises and reorders nothing.
C7_DescendingReversesAscending ==
  [][last'.op = "sort" =>
       /\ (last'.ok /\ last'.order = "descending" /\ last'.after_ascending
             => pl'.data = reversed(pl.data))
       /\ (last'.ok => SamePoints(pl'.data, pl.data) /\ pl'.length = pl.length)
       /\ (last'.order \notin {"ascending", "descending"} => ~last'.ok /\ pl' = pl)]_vars

\* a descending sort after an ascending one, of points that tie on the
\* coordinate and differ elsewhere
C7_Witness ==
  /\ last.op = "sort" /\ last.ok /\ last.order = "descending" /\ last.after_ascending
  /\ \E i, j \in 1..Len(pl.data) :
        LET f == field_index(pl.dtype, last.coordinate)
        IN  pl.data[i][f] = pl.data[j][f] /\ pl.data[i] # pl.data[j]

\* C8: remove_points raises and changes nothing when the mask's length differs
\* from the count; otherwise it deletes the points marked true, keeps the
\* others in order and lowers the count by the number marked.
C8_RemoveChecksMaskLength ==
  [][last'.op = "remove_points" =>
       \A m \in Masks :
          RemovePoints(m) =>
             IF Len(m) # pl.length
             THEN ~last'.ok /\ pl' = pl
             ELSE /\ last'.ok
                  /\ pl'.data = without(pl.data, nonzero(m), 1)
                  /\ pl'.length = pl.length - Cardinality(nonzero(m))]_vars

---------------------------------------------------------------------------
(* The PointListArray program: one PointListArray, pla, and the calls a    *)
(* client makes on it and, through get_pointlist, on its cells.            *)

\* shape=: omitted, (rows, cols), a list instead of a tuple, a 3-tuple
ShapeArgs == {NoShape} \cup {Shape(<<r, c>>) : r \in 0..MaxDim, c \in 0..MaxDim}
             \cup {[given |-> TRUE, is_tuple |-> FALSE, value |-> <<1, 1>>],
                   Shape(<<1, 1, 1>>)}
Indices == (0 - MaxDim - 1)..MaxDim

InitArray ==
  /\ numpy \in NumpyBuilds
  /\ pl = PointList(CoordNames, DataCube, NoData, FloatType).ret
  /\ pla \in {PointListArray(c, DataCube, NoShape, FloatType).ret : c \in ValidCoordinates}
  /\ last = [op |-> "PointListArray", ok |-> TRUE, err |-> "", ret |-> pla]

\* pla = PointListArray(coordinates, DataCube, shape)
ArrayConstruct(coordinates, shape) ==
  LET r == PointListArray(coordinates, DataCube, shape, FloatType)
  IN  /\ pla' = IF r.ok THEN r.ret ELSE pla
      /\ last' = Call("PointListArray", r, IF r.ok THEN r.ret ELSE None)
      /\ UNCHANGED <<pl, numpy>>

\* pla.get_pointlist(i, j)
GetPointlist(i, j) ==
  LET r == get_pointlist(pla, i, j)
  IN  /\ last' = [op |-> "get_pointlist", ok |-> r.ok, err |-> r.err,
                  ret |-> IF r.ok THEN pla.pointlists[r.at[1]][r.at[2]] ELSE None,
                  at |-> r.at]
      /\ UNCHANGED <<pl, pla, numpy>>

\* pla.get_pointlist(i, j).add_point(point): the cell is the object returned
CellAddPoint(i, j, point) ==
  LET g == get_pointlist(pla, i, j)
  IN  /\ g.ok => Len(pla.pointlists[g.at[1]][g.at[2]].data) < MaxCell
      /\ IF ~g.ok
         THEN /\ pla' = pla
              /\ last' = [op |-> "cell.add_point", ok |-> FALSE, err |-> g.err, ret |-> None]
         ELSE LET r == add_point(pla.pointlists[g.at[1]][g.at[2]], point)
              IN  /\ pla' = [pla EXCEPT !.pointlists[g.at[1]][g.at[2]] = r.self]
                  /\ last' = Call("cell.add_point", r, None)
      /\ UNCHANGED <<pl, numpy>>

\* pla.copy()
ArrayCopy ==
  LET r == PointListArray_copy(pla)
  IN  /\ pla' = r.self
      /\ last' = Call("PointListArray.copy", r, IF r.ok THEN r.ret ELSE None)
      /\ UNCHANGED <<pl, numpy>>

NextArray ==
  \/ \E c \in Coordinates, sh \in ShapeArgs : ArrayConstruct(c, sh)
  \/ \E i \in Indices, j \in Indices : GetPointlist(i, j)
  \/ \E i \in 0..(MaxDim - 1), j \in 0..(MaxDim - 1), p \in Points : CellAddPoint(i, j, p)
  \/ ArrayCopy

SpecArray == InitArray /\ [][NextArray]_vars

---------------------------------------------------------------------------
(* Claims about PointListArray, checked under SpecArray *)

\* C9: for a PointListArray of shape (R, C), get_pointlist(i, j) returns the
\* PointList of cell (i, j), a different cell for each pair, when 0 <= i < R
\* and 0 <= j < C, and raises for every other pair, negative i or j and
\* i = R or j = C included; every cell is empty right after construction.
C9_GetPointlistChecksRange ==
  [][/\ last'.op = "get_pointlist" =>
          \A i \in Indices, j \in Indices :
             GetPointlist(i, j) =>
                IF 0 <= i /\ i < pla.shape[1] /\ 0 <= j /\ j < pla.shape[2]
                THEN last'.ok /\ last'.at = <<i + 1, j + 1>>
                ELSE ~last'.ok
     /\ last'.op = "PointListArray" /\ last'.ok =>
          \A i \in range(pla'.shape[1]), j \in range(pla'.shape[2]) :
             pla'.pointlists[i][j].data = <<>> /\ pla'.pointlists[i][j].length = 0]_vars

\* C10: PointListArray.copy() always returns, whatever the cells hold, and
\* returns a PointListArray with the same coordinates, owner and shape whose
\* every cell holds the points and length of the same cell of the original,
\* which it leaves as it was.
C10_ArrayCopyIsEqual ==
  [][last'.op = "PointListArray.copy" =>
       /\ last'.ok
       /\ last'.ret.coordinates = pla.coordinates
       /\ last'.ret.parentDataCube = pla.parentDataCube
       /\ last'.ret.shape = pla.shape
       /\ \A i \in range(pla.shape[1]), j \in range(pla.shape[2]) :
             /\ last'.ret.pointlists[i][j].data = pla.pointlists[i][j].data
             /\ last'.ret.pointlists[i][j].length = pla.pointlists[i][j].length
       /\ pla' = pla]_vars

====
